---- MODULE Spec2Model ----
(***************************************************************************)
(* WeatherWise backend (src/backend/main.py): the WeatherState session     *)
(* object, the WeatherAgent operations built on it, and the provider calls *)
(* they make.  Strings that the code inspects (location strings) are       *)
(* sequences of one-character strings; opaque strings (labels, payloads,   *)
(* preference values) are TLA+ strings.  A Python dict is a function whose *)
(* DOMAIN is its key set, except saved_locations, whose insertion order is *)
(* observable through list(keys()) and which is a sequence of entries.     *)
(***************************************************************************)
EXTENDS Integers, Sequences, FiniteSets, TLC

VARIABLES
    conversation_history,   \* WeatherState.conversation_history
    last_interaction,       \* WeatherState.last_interaction (None or a clock value)
    saved_locations,        \* WeatherState.saved_locations, insertion ordered
    user_preferences,       \* WeatherState.user_preferences
    now,                    \* the wall clock read by datetime.now()
    call,                   \* the operation invoked last, with its arguments
    requests,               \* outbound requests.get calls of that invocation, in order
    responses,              \* what the provider answered to each of them
    result,                 \* the value the invocation returned
    raised,                 \* the exception that left the invocation, or "none"
    units_sent,             \* history: the "units" value of the latest
                            \* update_preferences argument that had the key
    labels_saved,           \* history: the labels save_location was called with
    env,                    \* os.environ after load_dotenv(): the two credentials
    process,                \* the server process: "loading", "serving" or "aborted"
    threads                 \* the requests being served by the worker threads

vars == <<conversation_history, last_interaction, saved_locations,
          user_preferences, now, call, requests, responses, result, raised,
          units_sent, labels_saved, env, process, threads>>

session == <<conversation_history, last_interaction, saved_locations,
             user_preferences>>

(***************************************************************************)
(* Bounds of the model.                                                    *)
(***************************************************************************)
MaxLen == 5      \* longest location string enumerated for _parse_location
MaxHist == 2     \* longest conversation history
MaxClock == 1    \* last clock value
NumThreads == 2  \* requests served at the same time

\* Optional values: None is the empty tuple, a present value v is <<v>>
None == <<>>
Some(v) == <<v>>

\* what a Python function without a return statement returns
PyNone == [None |-> TRUE]
\* the value of result when the invocation raised instead of returning
NoResult == [NoResult |-> TRUE]
NoException == "none"

(***************************************************************************)
(* Location strings and Python's float().                                  *)
(***************************************************************************)
Digits == {"0", "4"}
Alphabet == Digits \cup {".", "-", ",", " ", "a"}

RECURSIVE StringsOfLen(_)
StringsOfLen(n) ==
    IF n = 0 THEN {<<>>}
    ELSE {Append(s, c) : s \in StringsOfLen(n - 1), c \in Alphabet}

AllStrings == UNION {StringsOfLen(n) : n \in 0..MaxLen}

\* the number num * 10^-frac, in lowest terms: equal numbers are equal records
RECURSIVE Decimal(_, _)
Decimal(num, frac) ==
    IF frac > 0 /\ num % 10 = 0 THEN Decimal(num \div 10, frac - 1)
    ELSE [num |-> num, frac |-> frac]

\* "," in location
Contains(s, c) == \E i \in 1..Len(s) : s[i] = c

\* str.split(sep): the pieces between the separators, empty pieces kept
RECURSIVE SplitFrom(_, _, _, _)
SplitFrom(s, sep, i, cur) ==
    IF i > Len(s) THEN <<cur>>
    ELSE IF s[i] = sep THEN <<cur>> \o SplitFrom(s, sep, i + 1, <<>>)
    ELSE SplitFrom(s, sep, i + 1, Append(cur, s[i]))

Split(s, sep) == SplitFrom(s, sep, 1, <<>>)

\* float() first strips surrounding whitespace
RECURSIVE LStrip(_)
LStrip(s) == IF s # <<>> /\ Head(s) = " " THEN LStrip(Tail(s)) ELSE s

RECURSIVE RStrip(_)
RStrip(s) ==
    IF s # <<>> /\ s[Len(s)] = " " THEN RStrip(SubSeq(s, 1, Len(s) - 1)) ELSE s

Strip(s) == RStrip(LStrip(s))

Unsigned(s) == IF s # <<>> /\ Head(s) = "-" THEN Tail(s) ELSE s

DotCount(s) == Cardinality({i \in 1..Len(s) : s[i] = "."})
DigitCount(s) == Cardinality({i \in 1..Len(s) : s[i] \in Digits})

\* float(tok) succeeds: [sign] digits [. digits] with at least one digit
\* (the only float literals the alphabet can spell)
FloatOk(tok) ==
    LET u == Unsigned(Strip(tok))
    IN /\ \A i \in 1..Len(u) : u[i] \in Digits \cup {"."}
       /\ DotCount(u) <= 1
       /\ DigitCount(u) >= 1

DigitVal(c) == CASE c = "0" -> 0 [] c = "4" -> 4

RECURSIVE Mantissa(_, _)
Mantissa(u, acc) ==
    IF u = <<>> THEN acc
    ELSE IF Head(u) = "." THEN Mantissa(Tail(u), acc)
    ELSE Mantissa(Tail(u), 10 * acc + DigitVal(Head(u)))

FracDigits(u) ==
    IF DotCount(u) = 0 THEN 0
    ELSE Len(u) - (CHOOSE i \in 1..Len(u) : u[i] = ".")

\* the number float(tok) returns
FloatValue(tok) ==
    LET t == Strip(tok)
        u == Unsigned(t)
        sign == IF t # <<>> /\ Head(t) = "-" THEN -1 ELSE 1
    IN Decimal(sign * Mantissa(u, 0), FracDigits(u))

\* lat, lon = map(float, location.split(",")): two targets, so exactly two
\* pieces, each accepted by float(); anything else raises ValueError
UnpackOk(tokens) ==
    /\ Len(tokens) = 2
    /\ FloatOk(tokens[1])
    /\ FloatOk(tokens[2])

\* mutant: the two numbers assigned the other way round
CoordsSwapped(tokens) == [lat |-> FloatValue(tokens[2]), lon |-> FloatValue(tokens[1])]

CoordsOf(tokens) == [lat |-> FloatValue(tokens[1]), lon |-> FloatValue(tokens[2])]

\* the try block of _parse_location (src lines 118-122): the value it
\* returns, or the exception it raises
ParseTry(location) ==
    IF Contains(location, ",")
    THEN IF UnpackOk(Split(location, ","))
         THEN [value |-> CoordsOf(Split(location, ",")), raised |-> NoException]
         ELSE [value |-> NoResult, raised |-> "ValueError"]
    ELSE [value |-> [q |-> location], raised |-> NoException]

\* mutant: no except clause, the ValueError leaves the function
ParseLocationUncaught(location) == ParseTry(location)

\* WeatherAgent._parse_location: the try block under "except Exception"
ParseLocationCall(location) ==
    IF ParseTry(location).raised # NoException
    THEN [value |-> [q |-> location], raised |-> NoException]
    ELSE ParseTry(location)

ParseLocation(location) == ParseLocationCall(location).value

(***************************************************************************)
(* WeatherState                                                            *)
(***************************************************************************)
Roles == {"user", "assistant"}
Contents == {"hi"}
Labels == {"home", "Home"}
Payloads == {"p1", "p2"}
PrefKeys == {"units", "lang"}
PrefValues(key) == IF key = "units" THEN {"metric", "imperial"} ELSE {"en"}

\* datetime.isoformat(): the text of a clock value
IsoFormat(t) == <<"iso", t>>

\* request bodies of POST /preferences: any dict over the keys
Partials ==
    UNION {{f \in [ks -> {"metric", "imperial", "en"}] :
              \A k \in ks : f[k] \in PrefValues(k)} : ks \in SUBSET PrefKeys}

\* mutant: the dict replaced by the argument instead of merged with it
DictReplace(d, other) == other

\* dict.update(other): keys of other overwrite, the rest is kept
DictUpdate(d, other) ==
    [k \in DOMAIN d \cup DOMAIN other |-> IF k \in DOMAIN other THEN other[k] ELSE d[k]]

\* dict.get(key, default)
DictGet(d, key, default) == IF key \in DOMAIN d THEN d[key] ELSE default

\* saved_locations[location] = data on an insertion-ordered dict: an existing
\* key keeps its position, a new key goes last
HasLabel(d, label) == \E i \in 1..Len(d) : d[i].label = label

DictSetItem(d, label, data) ==
    IF HasLabel(d, label)
    THEN [i \in 1..Len(d) |-> IF d[i].label = label
                               THEN [label |-> label, data |-> data]
                               ELSE d[i]]
    ELSE Append(d, [label |-> label, data |-> data])

\* mutant: labels compared without regard to case
Lower(label) == IF label = "Home" THEN "home" ELSE label

DictSetItemCaseless(d, label, data) ==
    IF \E i \in 1..Len(d) : Lower(d[i].label) = Lower(label)
    THEN [i \in 1..Len(d) |-> IF Lower(d[i].label) = Lower(label)
                               THEN [label |-> d[i].label, data |-> data]
                               ELSE d[i]]
    ELSE Append(d, [label |-> label, data |-> data])

\* saved_locations[location] = data
SetLocation(d, label, data) == DictSetItem(d, label, data)

\* mutant: the payloads listed instead of the labels
DictPayloads(d) == [i \in 1..Len(d) |-> d[i].data]

\* list(d.keys())
DictKeys(d) == [i \in 1..Len(d) |-> d[i].label]

\* os.getenv: None when the variable is unset, else its text
EnvValues == {None, Some(""), Some("key")}

\* truth value of an os.getenv result: None and "" are falsy
Truthy(v) == v # None /\ v[1] # ""

\* mutant: only the language-model key is checked
GeminiKeySet(e) == Truthy(e.GEMINI_API_KEY)

\* neither `if not ...: raise ValueError` of the module fires
CredentialsSet(e) == Truthy(e.GEMINI_API_KEY) /\ Truthy(e.OPENWEATHER_API_KEY)

\* an environment with which the module loads
ServingEnv == [GEMINI_API_KEY |-> Some("key"), OPENWEATHER_API_KEY |-> Some("key")]

\* no request in flight
NoThreads == <<>>

\* the module loaded: the agent exists and the routes are registered
Serving == process = "serving"

\* WeatherState(): the field defaults
Init ==
    /\ conversation_history = <<>>
    /\ last_interaction = None
    /\ saved_locations = <<>>
    /\ user_preferences = <<>>
    /\ now = 0
    /\ call = [op |-> "__init__"]
    /\ requests = <<>>
    /\ responses = <<>>
    /\ result = PyNone
    /\ raised = NoException
    /\ units_sent = None
    /\ labels_saved = {}
    /\ env = ServingEnv
    /\ process = "serving"
    /\ threads = NoThreads

\* WeatherState.add_to_history: datetime.now() is read twice, for the entry
\* and for last_interaction, and the clock may move before each read
\* mutant: the assignment of src line 41 is missing
LastInteractionForgotten(t) == None

\* self.last_interaction = datetime.now()
LastInteractionAt(t) == Some(t)

HistoryEntry(role, content, t) ==
    [role |-> role, content |-> content, timestamp |-> IsoFormat(t)]

AddToHistory(role, content) ==
    /\ Serving
    /\ Len(conversation_history) < MaxHist
    /\ \E t1 \in now..MaxClock : \E t2 \in t1..MaxClock :
          /\ conversation_history' =
                Append(conversation_history, HistoryEntry(role, content, t1))
          /\ last_interaction' = LastInteractionAt(t2)
          /\ now' = t2
    /\ call' = [op |-> "add_to_history", role |-> role, content |-> content]
    /\ requests' = <<>>
    /\ responses' = <<>>
    /\ result' = PyNone
    /\ raised' = NoException
    /\ UNCHANGED <<saved_locations, user_preferences, units_sent, labels_saved,
                   env, process, threads>>

\* get_recent_history(self, limit: int = 5)
DEFAULT_LIMIT == 5

\* L[start:] of a Python list: a negative start counts from the end, and
\* both are clamped to the list
SliceFrom(L, start) ==
    LET begin == IF start < 0
                 THEN (IF Len(L) + start > 0 THEN Len(L) + start ELSE 0)
                 ELSE (IF start < Len(L) THEN start ELSE Len(L))
    IN SubSeq(L, begin + 1, Len(L))

\* self.conversation_history[-limit:]
RecentHistory(history, limit) == SliceFrom(history, 0 - limit)

\* WeatherState.get_recent_history
GetRecentHistory(limit) ==
    /\ Serving
    /\ call' = [op |-> "get_recent_history", limit |-> limit]
    /\ requests' = <<>>
    /\ responses' = <<>>
    /\ result' = RecentHistory(conversation_history, limit)
    /\ raised' = NoException
    /\ UNCHANGED <<conversation_history, last_interaction, saved_locations,
                   user_preferences, now, units_sent, labels_saved,
                   env, process, threads>>

\* WeatherAgent.save_location -> WeatherState.save_location
SaveLocation(label, data) ==
    /\ Serving
    /\ saved_locations' = SetLocation(saved_locations, label, data)
    /\ call' = [op |-> "save_location", location |-> label, data |-> data]
    /\ requests' = <<>>
    /\ responses' = <<>>
    /\ result' = PyNone
    /\ raised' = NoException
    /\ labels_saved' = labels_saved \cup {label}
    /\ UNCHANGED <<conversation_history, last_interaction, user_preferences, now,
                   units_sent, env, process, threads>>

\* WeatherAgent.update_preferences
UpdatePreferences(preferences) ==
    /\ Serving
    /\ user_preferences' = DictUpdate(user_preferences, preferences)
    /\ call' = [op |-> "update_preferences", preferences |-> preferences]
    /\ requests' = <<>>
    /\ responses' = <<>>
    /\ result' = PyNone
    /\ raised' = NoException
    /\ units_sent' = IF "units" \in DOMAIN preferences
                     THEN Some(preferences["units"])
                     ELSE units_sent
    /\ UNCHANGED <<conversation_history, last_interaction, saved_locations, now,
                   labels_saved, env, process, threads>>

\* WeatherAgent.get_state_summary
StateSummary ==
    [conversation_count |-> Len(conversation_history),
     last_interaction |-> IF last_interaction # None
                          THEN IsoFormat(last_interaction[1])
                          ELSE None,
     saved_locations |-> DictKeys(saved_locations),
     preferences |-> user_preferences]

GetStateSummary ==
    /\ Serving
    /\ call' = [op |-> "get_state_summary"]
    /\ requests' = <<>>
    /\ responses' = <<>>
    /\ result' = StateSummary
    /\ raised' = NoException
    /\ UNCHANGED <<conversation_history, last_interaction, saved_locations,
                   user_preferences, now, units_sent, labels_saved,
                   env, process, threads>>

(***************************************************************************)
(* The weather provider.  A call to requests.get either raises (the        *)
(* network failed) or returns a response with a status code and a body;    *)
(* response.json() raises on a body that is not JSON.                      *)
(***************************************************************************)
OPENWEATHER_API_KEY == "key"
HTTP_OK == 200

NetworkFailure == [failed |-> TRUE]
Response(status, is_json, body) == [status |-> status, is_json |-> is_json, body |-> body]
Failed(resp) == "failed" \in DOMAIN resp

ErrorStatuses == {404, 500}
ErrorResponses == {Response(s, TRUE, [cod |-> s]) : s \in ErrorStatuses}
NotJson == Response(HTTP_OK, FALSE, [html |-> TRUE])

Outcome(reqs, resps, res, exc) ==
    [requests |-> reqs, responses |-> resps, result |-> res, raised |-> exc]
Returns(reqs, resps, res) == Outcome(reqs, resps, res, NoException)
Raises(reqs, resps, exc) == Outcome(reqs, resps, NoResult, exc)

Request(url, params) == [url |-> url, params |-> params]

\* mutant: the unit read once, from the preferences of a new agent
WeatherParamsAtConstruction(location, preferences) ==
    DictUpdate(ParseLocation(location),
               [appid |-> OPENWEATHER_API_KEY, units |-> "metric"])

\* params = self._parse_location(location); params["appid"] = ...;
\* params["units"] = self.state.user_preferences.get("units", "metric")
WeatherParams(location, preferences) ==
    DictUpdate(ParseLocation(location),
               [appid |-> OPENWEATHER_API_KEY,
                units |-> DictGet(preferences, "units", "metric")])

\* the text f"{prefix}{response.status_code}", as its two parts
StatusError(prefix, status) == [error |-> <<prefix, ToString(status)>>]

\* bodies of the current-conditions endpoint
CurrentFull ==
    [main |-> [temp |-> 21, feels_like |-> 19, humidity |-> 60],
     weather |-> <<[description |-> "clear sky"]>>,
     wind |-> [speed |-> 3]]
CurrentNoMain == [weather |-> <<[description |-> "clear sky"]>>, wind |-> [speed |-> 3]]
CurrentNoHumidity ==
    [main |-> [temp |-> 21, feels_like |-> 19],
     weather |-> <<[description |-> "clear sky"]>>,
     wind |-> [speed |-> 3]]
CurrentEmptyWeather ==
    [main |-> [temp |-> 21, feels_like |-> 19, humidity |-> 60],
     weather |-> <<>>,
     wind |-> [speed |-> 3]]
CurrentNoWind ==
    [main |-> [temp |-> 21, feels_like |-> 19, humidity |-> 60],
     weather |-> <<[description |-> "clear sky"]>>]

CurrentResponses ==
    {NetworkFailure, NotJson} \cup ErrorResponses \cup
    {Response(HTTP_OK, TRUE, b) :
        b \in {CurrentFull, CurrentNoMain, CurrentNoHumidity, CurrentEmptyWeather,
               CurrentNoWind}}

\* the dict built at src lines 136-142; its items are evaluated in order
CurrentMissing(data) ==
    IF "main" \notin DOMAIN data THEN "KeyError"
    ELSE IF {"temp", "feels_like", "humidity"} \ DOMAIN data.main # {} THEN "KeyError"
    ELSE IF "weather" \notin DOMAIN data THEN "KeyError"
    ELSE IF Len(data.weather) = 0 THEN "IndexError"
    ELSE IF "description" \notin DOMAIN data.weather[1] THEN "KeyError"
    ELSE IF "wind" \notin DOMAIN data THEN "KeyError"
    ELSE IF "speed" \notin DOMAIN data.wind THEN "KeyError"
    ELSE NoException

CurrentData(data) ==
    [temperature |-> data.main.temp,
     feels_like |-> data.main.feels_like,
     humidity |-> data.main.humidity,
     description |-> data.weather[1].description,
     wind_speed |-> data.wind.speed]

\* WeatherAgent.get_current_weather
CurrentWeatherOutcome(location, preferences, resp) ==
    LET reqs == <<Request("data/2.5/weather", WeatherParams(location, preferences))>>
        resps == <<resp>>
    IN IF Failed(resp) THEN Raises(reqs, resps, "ConnectionError")
       ELSE IF resp.status = HTTP_OK
       THEN IF ~resp.is_json THEN Raises(reqs, resps, "JSONDecodeError")
            ELSE IF CurrentMissing(resp.body) # NoException
            THEN Raises(reqs, resps, CurrentMissing(resp.body))
            ELSE Returns(reqs, resps, CurrentData(resp.body))
       ELSE Returns(reqs, resps, StatusError("Failed to get weather data: ", resp.status))

\* mutant: every invocation logged in the conversation history
ObserveLogged(outcome) ==
    /\ Serving
    /\ requests' = outcome.requests
    /\ responses' = outcome.responses
    /\ result' = outcome.result
    /\ raised' = outcome.raised
    /\ conversation_history' =
          Append(conversation_history, [role |-> "assistant", content |-> "hi",
                                        timestamp |-> IsoFormat(now)])
    /\ last_interaction' = Some(now)
    /\ UNCHANGED <<saved_locations, user_preferences, now, units_sent, labels_saved,
                   env, process, threads>>

\* an invocation that touches no session state: what it sent, got and gave
Observe(outcome) ==
    /\ Serving
    /\ requests' = outcome.requests
    /\ responses' = outcome.responses
    /\ result' = outcome.result
    /\ raised' = outcome.raised
    /\ UNCHANGED <<conversation_history, last_interaction, saved_locations,
                   user_preferences, now, units_sent, labels_saved,
                   env, process, threads>>

\* current_weather route -> WeatherAgent.get_current_weather
GetCurrentWeather(location, resp) ==
    /\ call' = [op |-> "get_current_weather", location |-> location]
    /\ Observe(CurrentWeatherOutcome(location, user_preferences, resp))

\* a Python slice L[:n]; n is None, or an int that counts from the end when
\* negative
SliceTo(L, n) ==
    IF n = None THEN L
    ELSE IF n[1] >= 0 THEN SubSeq(L, 1, IF n[1] < Len(L) THEN n[1] ELSE Len(L))
    ELSE SubSeq(L, 1, IF Len(L) + n[1] > 0 THEN Len(L) + n[1] ELSE 0)

\* ForecastRequest.days: Optional[int] = 3
DEFAULT_DAYS == 3
DaysValues == {None, Some(-1), Some(0), Some(1), Some(DEFAULT_DAYS)}

\* bodies of the forecast endpoint
ForecastLists == {<<>>, <<"e1", "e2">>, <<"e1", "e2", "e3", "e4">>}
ForecastBodies ==
    {[list |-> L, city |-> [name |-> "Paris"]] : L \in ForecastLists}
    \cup {[list |-> <<"e1", "e2">>],
          [list |-> <<"e1", "e2">>, city |-> [country |-> "FR"]],
          [city |-> [name |-> "Paris"]]}

ForecastResponses ==
    {NetworkFailure, NotJson} \cup ErrorResponses \cup
    {Response(HTTP_OK, TRUE, b) : b \in ForecastBodies}

\* data.get("city", {}).get("name", "Unknown")
CityName(data) ==
    IF "city" \in DOMAIN data THEN DictGet(data.city, "name", "Unknown") ELSE "Unknown"

\* WeatherAgent.get_weather_forecast
ForecastOutcome(location, days, preferences, resp) ==
    LET reqs == <<Request("data/2.5/forecast", WeatherParams(location, preferences))>>
        resps == <<resp>>
    IN IF Failed(resp) THEN Raises(reqs, resps, "ConnectionError")
       ELSE IF resp.status = HTTP_OK
       THEN IF ~resp.is_json THEN Raises(reqs, resps, "JSONDecodeError")
            ELSE IF "list" \notin DOMAIN resp.body THEN Raises(reqs, resps, "KeyError")
            ELSE Returns(reqs, resps,
                         [forecast |-> SliceTo(resp.body.list, days),
                          city |-> CityName(resp.body)])
       ELSE Returns(reqs, resps, StatusError("Failed to get forecast data: ", resp.status))

\* weather_forecast route -> WeatherAgent.get_weather_forecast
GetWeatherForecast(location, days, resp) ==
    /\ call' = [op |-> "get_weather_forecast", location |-> location, days |-> days]
    /\ Observe(ForecastOutcome(location, days, user_preferences, resp))

\* bodies of the geocoding endpoint: a list of candidates
GeoBodies == {<<>>, <<[lat |-> 48, lon |-> 2]>>, <<[name |-> "Paris"]>>}
GeoResponses ==
    {NetworkFailure, NotJson} \cup ErrorResponses \cup
    {Response(HTTP_OK, TRUE, b) : b \in GeoBodies}

\* bodies of the air-pollution endpoint
AirFull == [list |-> <<[main |-> [aqi |-> 2], components |-> [co |-> 201]]>>]
AirEmptyList == [list |-> <<>>]
AirNoList == [coord |-> [lat |-> 48, lon |-> 2]]
AirNoComponents == [list |-> <<[main |-> [aqi |-> 2]]>>]
AirResponses ==
    {NetworkFailure, NotJson} \cup ErrorResponses \cup
    {Response(HTTP_OK, TRUE, b) : b \in {AirFull, AirEmptyList, AirNoList, AirNoComponents}}

\* the dict built at src lines 180-183
AirMissing(aq_data) ==
    IF "list" \notin DOMAIN aq_data THEN "KeyError"
    ELSE IF Len(aq_data.list) = 0 THEN "IndexError"
    ELSE IF "main" \notin DOMAIN aq_data.list[1] THEN "KeyError"
    ELSE IF "aqi" \notin DOMAIN aq_data.list[1].main THEN "KeyError"
    ELSE IF "components" \notin DOMAIN aq_data.list[1] THEN "KeyError"
    ELSE NoException

AirData(aq_data) ==
    [aqi |-> aq_data.list[1].main.aqi, components |-> aq_data.list[1].components]

ResolveError == [error |-> <<"Unable to resolve location to coordinates">>]
\* mutant: the pollution step reported with the text of the geocoding step
AirErrorAsResolve == ResolveError

AirError == [error |-> <<"Failed to get air quality data">>]

\* src lines 175-185: the pollution call with resolved coordinates; reqs and
\* resps are the calls made before it
PollutionOutcome(lat, lon, reqs, resps, aq_response) ==
    LET reqs2 == Append(reqs, Request("data/2.5/air_pollution",
                                      [lat |-> lat, lon |-> lon,
                                       appid |-> OPENWEATHER_API_KEY]))
        resps2 == Append(resps, aq_response)
    IN IF Failed(aq_response) THEN Raises(reqs2, resps2, "ConnectionError")
       ELSE IF aq_response.status = HTTP_OK
       THEN IF ~aq_response.is_json THEN Raises(reqs2, resps2, "JSONDecodeError")
            ELSE IF AirMissing(aq_response.body) # NoException
            THEN Raises(reqs2, resps2, AirMissing(aq_response.body))
            ELSE Returns(reqs2, resps2, AirData(aq_response.body))
       ELSE Returns(reqs2, resps2, AirError)

\* src lines 168-173: the geocoding sub-call for a place name
GeoParams(coords) == DictUpdate(coords, [limit |-> 1, appid |-> OPENWEATHER_API_KEY])

\* mutant: the branch taken on a key _parse_location never sets
HasCoordsWrongKey(coords) == "coords" \in DOMAIN coords

\* "lat" in coords and "lon" in coords
HasCoords(coords) == "lat" \in DOMAIN coords /\ "lon" \in DOMAIN coords

\* mutant: the candidate list not tested for emptiness
GeoFoundStatusOnly(geo) == geo.status = HTTP_OK

\* response.status_code == 200 and response.json(), for a body that is JSON
GeoFound(geo) == geo.status = HTTP_OK /\ Len(geo.body) > 0

\* WeatherAgent.get_air_quality; geo is the geocoding answer and aq the
\* pollution answer, each used only if that call is made
AirQualityOutcome(location, geo, aq) ==
    LET coords == ParseLocation(location)
        greqs == <<Request("geo/1.0/direct", GeoParams(coords))>>
        gresps == <<geo>>
    IN IF HasCoords(coords)
       THEN PollutionOutcome(coords.lat, coords.lon, <<>>, <<>>, aq)
       ELSE IF Failed(geo) THEN Raises(greqs, gresps, "ConnectionError")
       ELSE IF geo.status = HTTP_OK /\ ~geo.is_json
       THEN Raises(greqs, gresps, "JSONDecodeError")
       ELSE IF GeoFound(geo)
       THEN IF Len(geo.body) = 0 THEN Raises(greqs, gresps, "IndexError")
            ELSE IF {"lat", "lon"} \ DOMAIN geo.body[1] # {}
            THEN Raises(greqs, gresps, "KeyError")
            ELSE PollutionOutcome(geo.body[1].lat, geo.body[1].lon, greqs, gresps, aq)
       ELSE Returns(greqs, gresps, ResolveError)

\* air_quality route -> WeatherAgent.get_air_quality
GetAirQuality(location, geo, aq) ==
    /\ call' = [op |-> "get_air_quality", location |-> location]
    /\ Observe(AirQualityOutcome(location, geo, aq))

(***************************************************************************)
(* Tool dispatch.  The only dispatch in the source is the if/elif chain of *)
(* process_message (src lines 1038-1049), which stands commented out; the  *)
(* running module registers the tool descriptors and has no dispatch.      *)
(***************************************************************************)
\* the names _register_tools lists
ToolNames == {"get_current_weather", "get_weather_forecast", "get_air_quality"}

\* names a planner may ask for
DispatchNames == ToolNames \cup {"save_location", "get_weather"}

\* get_weather_forecast(**function_args): days takes its default when absent
DaysArg(args) == IF "days" \in DOMAIN args THEN Some(args.days) ELSE Some(DEFAULT_DAYS)

\* no branch of the chain assigns result, and json.dumps(result) reads it
UnknownTool(name) == Raises(<<>>, <<>>, "UnboundLocalError")

\* the if/elif chain on function_name; answers are the provider's responses
DispatchOutcome(name, args, preferences, answers) ==
    IF name = "get_current_weather"
    THEN CurrentWeatherOutcome(args.location, preferences, answers[1])
    ELSE IF name = "get_weather_forecast"
    THEN ForecastOutcome(args.location, DaysArg(args), preferences, answers[1])
    ELSE IF name = "get_air_quality"
    THEN AirQualityOutcome(args.location, answers[1], answers[2])
    ELSE UnknownTool(name)

Dispatch(name, args, answers) ==
    /\ call' = [op |-> "dispatch", name |-> name, args |-> args, answers |-> answers]
    /\ Observe(DispatchOutcome(name, args, user_preferences, answers))

(***************************************************************************)
(* Requests served at the same time.  The routes are plain def functions,  *)
(* which the server runs on worker threads over the one module-level       *)
(* agent.  The interpreter may switch threads between any two bytecodes;   *)
(* a step below is what one thread does without a switch: a list.append,   *)
(* an attribute assignment, a dict.update of a dict, a d[k] = v and a      *)
(* read of one field are each a single call into the interpreter's C code. *)
(***************************************************************************)
\* mutant: the store replaces the dict with the one entry
SetLocationAlone(d, label, data) == <<[label |-> label, data |-> data]>>

\* self.saved_locations[location] = data, one STORE_SUBSCR
StoreSubscr(d, label, data) == SetLocation(d, label, data)

\* the first statement of each operation
FirstStep(op) ==
    CASE op = "add_to_history" -> "append"
      [] op = "update_preferences" -> "update"
      [] op = "save_location" -> "setitem"
      [] op = "get_state_summary" -> "count"

\* a request handed to a worker thread
ThreadStart(req) == [pc |-> FirstStep(req.op), req |-> req, summary |-> <<>>]

ThreadAt(t, pc) == [threads EXCEPT ![t].pc = pc]

\* a step of a thread that leaves the session state alone
ThreadLocal ==
    UNCHANGED <<call, requests, responses, result, raised, units_sent,
                labels_saved, env, process>>

\* add_to_history, first statement: the entry is appended
AppendEntry(t) ==
    /\ threads[t].pc = "append"
    /\ \E t1 \in now..MaxClock :
          /\ conversation_history' =
                Append(conversation_history,
                       HistoryEntry(threads[t].req.role, threads[t].req.content, t1))
          /\ now' = t1
    /\ threads' = ThreadAt(t, "stamp")
    /\ ThreadLocal
    /\ UNCHANGED <<last_interaction, saved_locations, user_preferences>>

\* add_to_history, second statement: last_interaction is assigned
StampLastInteraction(t) ==
    /\ threads[t].pc = "stamp"
    /\ \E t2 \in now..MaxClock :
          /\ last_interaction' = LastInteractionAt(t2)
          /\ now' = t2
    /\ threads' = ThreadAt(t, "done")
    /\ ThreadLocal
    /\ UNCHANGED <<conversation_history, saved_locations, user_preferences>>

\* update_preferences: user_preferences.update(preferences)
MergePreferences(t) ==
    /\ threads[t].pc = "update"
    /\ user_preferences' = DictUpdate(user_preferences, threads[t].req.preferences)
    /\ threads' = ThreadAt(t, "done")
    /\ ThreadLocal
    /\ UNCHANGED <<conversation_history, last_interaction, saved_locations, now>>

\* save_location: saved_locations[location] = data
StoreLocation(t) ==
    /\ threads[t].pc = "setitem"
    /\ saved_locations' =
          StoreSubscr(saved_locations, threads[t].req.location, threads[t].req.data)
    /\ threads' = ThreadAt(t, "done")
    /\ ThreadLocal
    /\ UNCHANGED <<conversation_history, last_interaction, user_preferences, now>>

\* get_state_summary builds its dict entry by entry
Read(t, pc, next, key, value) ==
    /\ threads[t].pc = pc
    /\ threads' = [threads EXCEPT ![t].pc = next,
                                  ![t].summary = key :> value @@ @]
    /\ ThreadLocal
    /\ UNCHANGED <<conversation_history, last_interaction, saved_locations,
                   user_preferences, now>>

ReadCount(t) ==
    Read(t, "count", "last", "conversation_count", Len(conversation_history))

ReadLastInteraction(t) ==
    Read(t, "last", "keys", "last_interaction",
         IF last_interaction # None THEN IsoFormat(last_interaction[1]) ELSE None)

ReadLocations(t) ==
    Read(t, "keys", "prefs", "saved_locations", DictKeys(saved_locations))

ReadPreferences(t) ==
    Read(t, "prefs", "done", "preferences", user_preferences)

(***************************************************************************)
(* Specifications.                                                         *)
(***************************************************************************)
\* "lat,lon", a place name, a place name with a comma
LocCoords == <<"4", ",", "-", "4", "0">>
LocName == <<"a">>
LocCommaName == <<"a", ",", " ", "a">>
Locations == {LocCoords, LocName, LocCommaName}

\* the session operations; the provider answers the current-conditions call
\* with data or with an error status
SessionResponses == {Response(HTTP_OK, TRUE, CurrentFull), Response(404, TRUE, [cod |-> 404])}

SessionForecastResponses ==
    {Response(HTTP_OK, TRUE, [list |-> <<"e1", "e2">>]), Response(404, TRUE, [cod |-> 404])}
SessionAirResponses ==
    {Response(HTTP_OK, TRUE, AirFull), Response(404, TRUE, [cod |-> 404])}

Next ==
    \/ \E role \in Roles, content \in Contents : AddToHistory(role, content)
    \/ \E label \in Labels, data \in Payloads : SaveLocation(label, data)
    \/ \E preferences \in Partials : UpdatePreferences(preferences)
    \/ GetStateSummary
    \/ \E resp \in SessionResponses : GetCurrentWeather(LocName, resp)
    \/ \E resp \in SessionForecastResponses : GetWeatherForecast(LocName, Some(1), resp)
    \/ \E aq \in SessionAirResponses : GetAirQuality(LocCoords, NetworkFailure, aq)

Spec == Init /\ [][Next]_vars

\* the weather operations against every behaviour of the provider
NextWeather ==
    \/ \E preferences \in Partials : UpdatePreferences(preferences)
    \/ \E location \in Locations, resp \in CurrentResponses :
          GetCurrentWeather(location, resp)
    \/ \E location \in Locations, days \in DaysValues, resp \in ForecastResponses :
          GetWeatherForecast(location, days, resp)
    \/ \E location \in Locations, geo \in GeoResponses, aq \in AirResponses :
          GetAirQuality(location, geo, aq)

SpecWeather == Init /\ [][NextWeather]_vars

\* _parse_location on every location string up to MaxLen characters
InitParse ==
    /\ conversation_history = <<>>
    /\ last_interaction = None
    /\ saved_locations = <<>>
    /\ user_preferences = <<>>
    /\ now = 0
    /\ call \in {[op |-> "pending", location |-> s] : s \in AllStrings}
    /\ requests = <<>>
    /\ responses = <<>>
    /\ result = PyNone
    /\ raised = NoException
    /\ units_sent = None
    /\ labels_saved = {}
    /\ env = ServingEnv
    /\ process = "serving"
    /\ threads = NoThreads

ParseStep ==
    /\ call.op = "pending"
    /\ call' = [op |-> "_parse_location", location |-> call.location]
    /\ Observe(Outcome(<<>>, <<>>, ParseLocationCall(call.location).value,
                       ParseLocationCall(call.location).raised))

NextParse == ParseStep

SpecParse == InitParse /\ [][NextParse]_vars

\* the module being imported by the server, then its routes being served
InitStartup ==
    /\ conversation_history = <<>>
    /\ last_interaction = None
    /\ saved_locations = <<>>
    /\ user_preferences = <<>>
    /\ now = 0
    /\ call = [op |-> "load_dotenv"]
    /\ requests = <<>>
    /\ responses = <<>>
    /\ result = PyNone
    /\ raised = NoException
    /\ units_sent = None
    /\ labels_saved = {}
    /\ env \in [GEMINI_API_KEY : EnvValues, OPENWEATHER_API_KEY : EnvValues]
    /\ process = "loading"
    /\ threads = NoThreads

\* the module body: the credential check, then agent = WeatherAgent()
Startup ==
    /\ process = "loading"
    /\ IF CredentialsSet(env)
       THEN /\ process' = "serving"
            /\ call' = [op |-> "__init__"]
            /\ raised' = NoException
       ELSE /\ process' = "aborted"
            /\ call' = call
            /\ raised' = "ValueError"
    /\ UNCHANGED <<conversation_history, last_interaction, saved_locations,
                   user_preferences, now, requests, responses, result,
                   units_sent, labels_saved, env, threads>>

\* the module loads or aborts; a process whose module loaded serves
NextStartup ==
    \/ Startup
    \/ Next

SpecStartup == InitStartup /\ [][NextStartup]_vars

\* function_args: location, and days for some forecast requests
DispatchArgs ==
    {[location |-> LocName], [location |-> LocCoords],
     [location |-> LocName, days |-> 1]}

\* what the provider answers to the calls of a dispatched tool
DispatchAnswers(name) ==
    IF name = "get_current_weather"
    THEN {<<resp>> : resp \in CurrentResponses}
    ELSE IF name = "get_weather_forecast"
    THEN {<<resp>> : resp \in ForecastResponses}
    ELSE IF name = "get_air_quality"
    THEN {<<geo, aq>> : geo \in GeoResponses, aq \in AirResponses}
    ELSE {<<>>}

\* every name a planner may ask for, against every behaviour of the provider
NextDispatch ==
    \/ \E preferences \in Partials : UpdatePreferences(preferences)
    \/ \E name \in DispatchNames, args \in DispatchArgs :
          \E answers \in DispatchAnswers(name) : Dispatch(name, args, answers)

SpecDispatch == Init /\ [][NextDispatch]_vars

\* the requests that may arrive together
ThreadPartials ==
    {[units |-> "metric"], [units |-> "imperial"], [units |-> "metric", lang |-> "en"]}

ThreadRequests ==
    {[op |-> "add_to_history", role |-> "user", content |-> "hi"],
     [op |-> "get_state_summary"]}
    \cup {[op |-> "update_preferences", preferences |-> p] : p \in ThreadPartials}
    \cup {[op |-> "save_location", location |-> l, data |-> d] :
             l \in Labels, d \in Payloads}

InitThreads ==
    /\ conversation_history = <<>>
    /\ last_interaction = None
    /\ saved_locations = <<>>
    /\ user_preferences = <<>>
    /\ now = 0
    /\ call = [op |-> "__init__"]
    /\ requests = <<>>
    /\ responses = <<>>
    /\ result = PyNone
    /\ raised = NoException
    /\ units_sent = None
    /\ labels_saved = {}
    /\ env = ServingEnv
    /\ process = "serving"
    /\ threads \in [1..NumThreads -> {ThreadStart(req) : req \in ThreadRequests}]

NextThreads ==
    \/ \E t \in DOMAIN threads : AppendEntry(t)
    \/ \E t \in DOMAIN threads : StampLastInteraction(t)
    \/ \E t \in DOMAIN threads : MergePreferences(t)
    \/ \E t \in DOMAIN threads : StoreLocation(t)
    \/ \E t \in DOMAIN threads : ReadCount(t)
    \/ \E t \in DOMAIN threads : ReadLastInteraction(t)
    \/ \E t \in DOMAIN threads : ReadLocations(t)
    \/ \E t \in DOMAIN threads : ReadPreferences(t)

SpecThreads == InitThreads /\ [][NextThreads]_vars

\* the limits asked for: none, fewer than, as many as and more than the
\* history holds, the default, and a negative one
Limits == (-1..(MaxHist + 1)) \cup {DEFAULT_LIMIT}

\* the history growing and being read back
NextHistory ==
    \/ \E role \in Roles, content \in Contents : AddToHistory(role, content)
    \/ \E limit \in Limits : GetRecentHistory(limit)

SpecHistory == Init /\ [][NextHistory]_vars

(***************************************************************************)
(* Properties of _parse_location (checked under SpecParse).                *)
(***************************************************************************)
CommaPositions(s) == {i \in 1..Len(s) : s[i] = ","}
Before(s, i) == SubSeq(s, 1, i - 1)
After(s, i) == SubSeq(s, i + 1, Len(s))

\* s is two texts float() accepts with exactly one comma between them
TwoNumbers(s) ==
    /\ Cardinality(CommaPositions(s)) = 1
    /\ \A i \in CommaPositions(s) : FloatOk(Before(s, i)) /\ FloatOk(After(s, i))

Parsed == call.op = "_parse_location"

\* C1: a location of two valid numbers around one comma parses to the
\* coordinate variant: keys lat and lon only, lat the first number and lon
\* the second.
C1_CoordinateVariant ==
    (Parsed /\ TwoNumbers(call.location)) =>
        /\ raised = NoException
        /\ DOMAIN result = {"lat", "lon"}
        /\ \A i \in CommaPositions(call.location) :
              /\ result.lat = FloatValue(Before(call.location, i))
              /\ result.lon = FloatValue(After(call.location, i))

\* "-4,.4" has been parsed: lat is -4 and lon is 0.4
C1_Witness ==
    /\ Parsed
    /\ call.location = <<"-", "4", ",", ".", "4">>
    /\ TwoNumbers(call.location)
    /\ result.lat = Decimal(-4, 0)
    /\ result.lon = Decimal(4, 1)

\* C2: any other location (no comma, a token float() rejects, an empty
\* token, more than one comma) parses without raising to the place-name
\* variant: the key q only, holding the input unchanged.
C2_PlaceNameVariant ==
    (Parsed /\ ~TwoNumbers(call.location)) =>
        /\ raised = NoException
        /\ DOMAIN result = {"q"}
        /\ result.q = call.location

\* "4,0,4" (three numbers) has been parsed
C2_Witness ==
    /\ Parsed
    /\ call.location = <<"4", ",", "0", ",", "4">>
    /\ ~TwoNumbers(call.location)
    /\ result = [q |-> call.location]

(***************************************************************************)
(* Properties of the weather operations (checked under SpecWeather).       *)
(***************************************************************************)
WeatherOps == {"get_current_weather", "get_weather_forecast", "get_air_quality"}
DataFields == {"temperature", "feels_like", "humidity", "description", "wind_speed",
               "forecast", "city", "aqi", "components"}
UrlsOf(reqs) == {reqs[i].url : i \in 1..Len(reqs)}

\* C3: the request of get_current_weather and of get_weather_forecast carries
\* units = the value of the latest update_preferences argument that had the
\* key "units", and units = "metric" when no argument had it.
C3_UnitsReadAtCallTime ==
    call.op \in {"get_current_weather", "get_weather_forecast"} =>
        /\ Len(requests) = 1
        /\ "units" \in DOMAIN requests[1].params
        /\ requests[1].params.units =
              IF units_sent = None THEN "metric" ELSE units_sent[1]

\* a forecast requested after an update to imperial, the preferences still
\* holding another key
C3_Witness ==
    /\ call.op = "get_weather_forecast"
    /\ units_sent = Some("imperial")
    /\ "lang" \in DOMAIN user_preferences
    /\ requests[1].params.units = "imperial"

\* C5 as claimed: when a provider call of a weather operation answers a
\* non-success status s, the result has an error field whose text contains s
\* and has no data field.
C5_ErrorCarriesStatus ==
    call.op \in WeatherOps =>
        \A i \in 1..Len(responses) :
            (~Failed(responses[i]) /\ responses[i].status # HTTP_OK) =>
                /\ raised = NoException
                /\ "error" \in DOMAIN result
                /\ \E j \in 1..Len(result.error) :
                      result.error[j] = ToString(responses[i].status)
                /\ DOMAIN result \cap DataFields = {}

\* C6: get_air_quality on a "lat,lon" location sends exactly one request,
\* to the pollution endpoint, with the parsed lat and lon; none to the
\* geocoding endpoint.
C6_CoordinatesSkipGeocoding ==
    (call.op = "get_air_quality" /\ TwoNumbers(call.location)) =>
        /\ Len(requests) = 1
        /\ "geo/1.0/direct" \notin UrlsOf(requests)
        /\ requests[1].url = "data/2.5/air_pollution"
        /\ \A i \in CommaPositions(call.location) :
              /\ requests[1].params.lat = FloatValue(Before(call.location, i))
              /\ requests[1].params.lon = FloatValue(After(call.location, i))

\* air quality asked for "4,-40" and answered
C6_Witness ==
    /\ call.op = "get_air_quality"
    /\ call.location = LocCoords
    /\ requests = <<Request("data/2.5/air_pollution",
                             [lat |-> Decimal(4, 0), lon |-> Decimal(-40, 0),
                              appid |-> OPENWEATHER_API_KEY])>>
    /\ "aqi" \in DOMAIN result

GeocodingFailed ==
    /\ Len(responses) >= 1
    /\ requests[1].url = "geo/1.0/direct"
    /\ ~Failed(responses[1])
    /\ \/ responses[1].status # HTTP_OK
       \/ responses[1].is_json /\ Len(responses[1].body) = 0

\* C7: get_air_quality on a place name whose geocoding call answers a
\* non-success status or an empty candidate list returns the resolution
\* error and sends nothing to the pollution endpoint.
C7_NoPollutionCallAfterFailedGeocoding ==
    (call.op = "get_air_quality" /\ ~TwoNumbers(call.location) /\ GeocodingFailed) =>
        /\ raised = NoException
        /\ result = [error |-> <<"Unable to resolve location to coordinates">>]
        /\ "data/2.5/air_pollution" \notin UrlsOf(requests)

\* geocoding of "a, a" answered 200 with no candidates
C7_Witness ==
    /\ call.op = "get_air_quality"
    /\ call.location = LocCommaName
    /\ GeocodingFailed
    /\ responses[1].status = HTTP_OK
    /\ Len(requests) = 1

\* C8 as claimed: whatever the provider does, a weather operation returns a
\* result that is data or an error and raises nothing.
C8_NeverRaises ==
    call.op \in WeatherOps =>
        /\ raised = NoException
        /\ "error" \in DOMAIN result \/ DOMAIN result \cap DataFields # {}

(***************************************************************************)
(* Properties of the session state (checked under Spec).                   *)
(***************************************************************************)
\* C4: get_state_summary lists exactly the labels saved so far, each once,
\* and holds no saved payload.
C4_SummaryListsLabelsOnly ==
    call.op = "get_state_summary" =>
        /\ DOMAIN result =
              {"conversation_count", "last_interaction", "saved_locations", "preferences"}
        /\ {result.saved_locations[i] : i \in 1..Len(result.saved_locations)} = labels_saved
        /\ Len(result.saved_locations) = Cardinality(labels_saved)
        /\ \A i \in 1..Len(result.saved_locations) :
              result.saved_locations[i] \notin Payloads
        /\ \A k \in DOMAIN result.preferences : result.preferences[k] \notin Payloads

\* the summary after "home" was saved, overwritten, and "Home" saved too
C4_Witness ==
    /\ call.op = "get_state_summary"
    /\ saved_locations = <<[label |-> "home", data |-> "p2"],
                            [label |-> "Home", data |-> "p1"]>>
    /\ result.saved_locations = <<"home", "Home">>

\* C9: last_interaction is set exactly when the history is not empty.
C9_LastInteractionIffHistory ==
    (last_interaction # None) <=> (conversation_history # <<>>)

\* two entries appended, a weather operation run after them
C9_Witness ==
    /\ Len(conversation_history) = 2
    /\ last_interaction # None
    /\ call.op = "get_current_weather"

\* C10: update_preferences(partial) gives every key of partial the value in
\* partial, keeps every other key with its value, removes none, and leaves
\* history, last interaction and saved locations as they were.
C10_ShallowMerge ==
    [][call'.op = "update_preferences" =>
        /\ \A k \in DOMAIN call'.preferences :
              k \in DOMAIN user_preferences' /\ user_preferences'[k] = call'.preferences[k]
        /\ \A k \in DOMAIN user_preferences \ DOMAIN call'.preferences :
              k \in DOMAIN user_preferences' /\ user_preferences'[k] = user_preferences[k]
        /\ DOMAIN user_preferences' = DOMAIN user_preferences \cup DOMAIN call'.preferences
        /\ UNCHANGED <<conversation_history, last_interaction, saved_locations>>]_vars

\* units overwritten by an update that named units only, lang kept, the
\* rest of the session not empty
C10_Witness ==
    /\ call.op = "update_preferences"
    /\ DOMAIN call.preferences = {"units"}
    /\ DOMAIN user_preferences = {"units", "lang"}
    /\ user_preferences["units"] = "imperial"
    /\ saved_locations # <<>>
    /\ conversation_history # <<>>

\* the payload stored under a label, None when the label is absent
PayloadOf(d, label) ==
    IF \E i \in 1..Len(d) : d[i].label = label
    THEN Some(d[CHOOSE i \in 1..Len(d) : d[i].label = label].data)
    ELSE None

\* C11: save_location(label, data) makes label map to data, whatever was
\* stored under it, and leaves every other label, compared exactly and with
\* case, with the payload it had or absent as it was.
C11_SaveLocationLastWriteWins ==
    [][call'.op = "save_location" =>
        /\ PayloadOf(saved_locations', call'.location) = Some(call'.data)
        /\ \A l \in Labels \ {call'.location} :
              PayloadOf(saved_locations', l) = PayloadOf(saved_locations, l)
        /\ Cardinality({i \in 1..Len(saved_locations') :
                           saved_locations'[i].label = call'.location}) = 1]_vars

\* "Home" saved with p2 while "home" keeps p1
C11_Witness ==
    /\ call = [op |-> "save_location", location |-> "Home", data |-> "p2"]
    /\ PayloadOf(saved_locations, "home") = Some("p1")
    /\ PayloadOf(saved_locations, "Home") = Some("p2")

\* C12: the three weather operations and get_state_summary change no part
\* of the session state, whether they end in data or in an error.
C12_ReadOnlyOperations ==
    [][call'.op \in WeatherOps \cup {"get_state_summary"} =>
        UNCHANGED <<conversation_history, last_interaction, saved_locations,
                    user_preferences>>]_vars

\* an air-quality call that ended in an error, on a session that holds
\* history, a saved location and a preference
C12_Witness ==
    /\ call.op = "get_air_quality"
    /\ "error" \in DOMAIN result
    /\ conversation_history # <<>>
    /\ saved_locations # <<>>
    /\ DOMAIN user_preferences # {}

(***************************************************************************)
(* Further properties of the weather operations (under SpecWeather).       *)
(***************************************************************************)
Min(a, b) == IF a < b THEN a ELSE b
Max(a, b) == IF a > b THEN a ELSE b

\* the first n entries of L, all of L when it has fewer, none when n <= 0
FirstEntries(L, n) == SubSeq(L, 1, Min(Max(n, 0), Len(L)))

\* the N of a days value: the number given, 3 when none is given
DaysCount(days) == IF days = None THEN DEFAULT_DAYS ELSE days[1]

ForecastSucceeded ==
    /\ call.op = "get_weather_forecast"
    /\ ~Failed(responses[1])
    /\ responses[1].status = HTTP_OK
    /\ responses[1].is_json
    /\ "list" \in DOMAIN responses[1].body

\* C13 as claimed: for every days value the route accepts (0, negative and
\* null included) a successful forecast holds the first N entries of the
\* provider's list, never more than N, and city is the provider's city name
\* or "Unknown".
C13_FirstNEntries ==
    ForecastSucceeded =>
        /\ raised = NoException
        /\ result.forecast = FirstEntries(responses[1].body.list, DaysCount(call.days))
        /\ Len(result.forecast) <= Max(DaysCount(call.days), 0)
        /\ result.city = IF "city" \in DOMAIN responses[1].body
                            /\ "name" \in DOMAIN responses[1].body.city
                         THEN responses[1].body.city.name
                         ELSE "Unknown"

CountUrl(reqs, url) == Cardinality({i \in 1..Len(reqs) : reqs[i].url = url})
CallFailed(resp) == Failed(resp) \/ resp.status # HTTP_OK

\* C14 as claimed: current weather and forecast send exactly one request,
\* to their own endpoint; air quality sends at most one geocoding and at
\* most one pollution request; and a call that failed is the last call of
\* its invocation, which then returns an error result.
C14_NoRetryErrorSurfaces ==
    call.op \in WeatherOps =>
        /\ call.op = "get_current_weather" =>
              Len(requests) = 1 /\ requests[1].url = "data/2.5/weather"
        /\ call.op = "get_weather_forecast" =>
              Len(requests) = 1 /\ requests[1].url = "data/2.5/forecast"
        /\ call.op = "get_air_quality" =>
              /\ CountUrl(requests, "geo/1.0/direct") <= 1
              /\ CountUrl(requests, "data/2.5/air_pollution") <= 1
              /\ Len(requests) =
                    CountUrl(requests, "geo/1.0/direct")
                    + CountUrl(requests, "data/2.5/air_pollution")
        /\ \A i \in 1..Len(responses) :
              CallFailed(responses[i]) =>
                  /\ i = Len(requests)
                  /\ raised = NoException
                  /\ "error" \in DOMAIN result

PollutionFailed ==
    /\ Len(responses) >= 1
    /\ requests[Len(requests)].url = "data/2.5/air_pollution"
    /\ ~Failed(responses[Len(responses)])
    /\ responses[Len(responses)].status # HTTP_OK

ResolveErrorText == <<"Unable to resolve location to coordinates">>
AirErrorText == <<"Failed to get air quality data">>

RouteOps == WeatherOps \cup {"save_location", "update_preferences",
                             "get_state_summary"}

\* C16: when the weather-provider key or the language-model key is absent
\* (unset or empty) at startup, the process never serves: startup aborts
\* with a ValueError before the agent is constructed, no route handler runs
\* and no outbound call is made
C16_MissingCredentialAbortsStartup ==
    (~Truthy(env.GEMINI_API_KEY) \/ ~Truthy(env.OPENWEATHER_API_KEY)) =>
        /\ process \in {"loading", "aborted"}
        /\ process = "aborted" => raised = "ValueError"
        /\ call.op \notin RouteOps \cup {"__init__", "add_to_history"}
        /\ requests = <<>>
        /\ session = <<<<>>, None, <<>>, <<>>>>

C16_Witness ==
    /\ env = [GEMINI_API_KEY |-> Some("key"), OPENWEATHER_API_KEY |-> None]
    /\ process = "aborted"
    /\ raised = "ValueError"

(***************************************************************************)
(* Tool dispatch (checked under SpecDispatch).                             *)
(***************************************************************************)
\* what the weather operation of a registered name does with the arguments
Forwarded(name, args, preferences, answers) ==
    CASE name = "get_current_weather" ->
            CurrentWeatherOutcome(args.location, preferences, answers[1])
      [] name = "get_weather_forecast" ->
            ForecastOutcome(args.location, DaysArg(args), preferences, answers[1])
      [] name = "get_air_quality" ->
            AirQualityOutcome(args.location, answers[1], answers[2])

\* C17: dispatching a name that is not one of the three registered
\* operations returns an error result and raises nothing; dispatching a
\* registered name gives what the weather operation of that name gives
C17_UnknownToolIsReturnedError ==
    call.op = "dispatch" =>
        /\ call.name \notin ToolNames =>
              /\ raised = NoException
              /\ "error" \in DOMAIN result
              /\ requests = <<>>
        /\ call.name \in ToolNames =>
              <<requests, responses, result, raised>> =
                 LET o == Forwarded(call.name, call.args, user_preferences,
                                    call.answers)
                 IN <<o.requests, o.responses, o.result, o.raised>>

(***************************************************************************)
(* The history append (checked under Spec).                                *)
(***************************************************************************)
\* C20: every add_to_history appends exactly one entry {role, content,
\* timestamp} at the end, leaves the earlier entries, the saved locations
\* and the preferences as they were, and sets last_interaction to the
\* timestamp recorded in that last entry
C20_LastInteractionIsEntryTimestamp ==
    [][call'.op = "add_to_history" =>
        /\ Len(conversation_history') = Len(conversation_history) + 1
        /\ SubSeq(conversation_history', 1, Len(conversation_history)) =
              conversation_history
        /\ LET last == conversation_history'[Len(conversation_history')]
           IN /\ DOMAIN last = {"role", "content", "timestamp"}
              /\ last.role = call'.role
              /\ last.content = call'.content
              /\ last_interaction' # None
              /\ IsoFormat(last_interaction'[1]) = last.timestamp
        /\ UNCHANGED <<saved_locations, user_preferences>>]_vars

(***************************************************************************)
(* Requests served at the same time (checked under SpecThreads).           *)
(***************************************************************************)
Readers == {t \in DOMAIN threads : threads[t].req.op = "get_state_summary"
                                    /\ threads[t].pc = "done"}

\* C18: no get_state_summary that runs beside an add_to_history returns a
\* summary in which the entry is counted but last_interaction is not set:
\* a conversation count above 0 never comes with a null last interaction
C18_AppendIsIndivisible ==
    \A t \in Readers :
        threads[t].summary.conversation_count > 0 =>
            threads[t].summary.last_interaction # None

AllDone == \A t \in DOMAIN threads : threads[t].pc = "done"

Writers(op) == {t \in DOMAIN threads : threads[t].req.op = op}

\* the requests applied one at a time in the given order
RECURSIVE Serially(_, _)
Serially(order, state) ==
    IF order = <<>> THEN state
    ELSE LET req == threads[Head(order)].req
             next ==
                 IF req.op = "update_preferences"
                 THEN [state EXCEPT !.preferences = DictUpdate(@, req.preferences)]
                 ELSE IF req.op = "save_location"
                 THEN [state EXCEPT !.locations = SetLocation(@, req.location, req.data)]
                 ELSE state
         IN Serially(Tail(order), next)

Orders == {o \in [1..NumThreads -> 1..NumThreads] :
              \A i, j \in 1..NumThreads : i # j => o[i] # o[j]}

\* C19: when all the requests that ran together are done, preferences and
\* saved locations are what applying the same calls one at a time in some
\* order gives; every key a call wrote is there, with the value one of the
\* calls that wrote it gave
C19_ConcurrentWritesSerialize ==
    AllDone =>
        /\ \E o \in Orders :
              Serially(o, [preferences |-> <<>>, locations |-> <<>>]) =
                 [preferences |-> user_preferences, locations |-> saved_locations]
        /\ \A t \in Writers("update_preferences") :
              \A k \in DOMAIN threads[t].req.preferences :
                 /\ k \in DOMAIN user_preferences
                 /\ \E u \in Writers("update_preferences") :
                       /\ k \in DOMAIN threads[u].req.preferences
                       /\ user_preferences[k] = threads[u].req.preferences[k]
        /\ \A t \in Writers("save_location") :
              \E u \in Writers("save_location") :
                 /\ threads[u].req.location = threads[t].req.location
                 /\ PayloadOf(saved_locations, threads[t].req.location) =
                       Some(threads[u].req.data)

C19_Witness ==
    /\ AllDone
    /\ \E t, u \in Writers("update_preferences") :
          /\ threads[t].req.preferences = [units |-> "metric", lang |-> "en"]
          /\ threads[u].req.preferences = [units |-> "imperial"]
    /\ user_preferences = [units |-> "imperial", lang |-> "en"]

(***************************************************************************)
(* Reading the history back (checked under SpecHistory).                   *)
(***************************************************************************)
\* the last n entries of h in their order, all of h when it has fewer
LastEntries(h, n) == SubSeq(h, Len(h) - Min(n, Len(h)) + 1, Len(h))

\* C21: for every limit >= 0, get_recent_history(limit) returns the last
\* min(limit, length) entries of the history in their order, never more
\* than limit (none when limit is 0), and leaves the history as it was
C21_RecentHistoryLastEntries ==
    [][(call'.op = "get_recent_history" /\ call'.limit >= 0) =>
        /\ result' = LastEntries(conversation_history, call'.limit)
        /\ Len(result') <= call'.limit
        /\ UNCHANGED conversation_history]_vars

====
